---- MODULE Spec2Model ----
(***************************************************************************)
(* State-machine model of the parenting-coach chat application:            *)
(*   - the provider adapter (src/services/ai.ts): module-level session     *)
(*     state, initializeChat, sendMessageToAI, generateSpeech, playSpeech; *)
(*   - the conversation state held by the App component (src/App.tsx):     *)
(*     profiles, active profile, transcript, input text, isLoading;        *)
(*   - the speech caller of one ChatMessage component                      *)
(*     (src/unnamed/part_001).                                             *)
(*                                                                         *)
(* Texts are sequences of tokens (strings).  An asynchronous function is   *)
(* split at its await: one action runs the code up to the await, another   *)
(* runs the code after it, so that other UI events can come in between,    *)
(* exactly as the browser's event loop allows.  A promise that rejects     *)
(* before the first await settles in the same action as the call, since    *)
(* its continuation is a microtask that no UI event can precede.           *)
(*                                                                         *)
(* The fields prof and req of a message or history entry are history       *)
(* (ghost) fields: the profile that was active when the turn was           *)
(* submitted and the number of the submission.  The code does not store    *)
(* them and no guard reads them.  lastOp is a ghost variable too: the      *)
(* operation that made the last step and how it ended.                     *)
(***************************************************************************)
EXTENDS Integers, Sequences, FiniteSets, TLC

VARIABLES
    hasApiKey,          \* process.env.API_KEY is set (Backend A's credential)
    hasDeepSeekKey,     \* process.env.DEEPSEEK_API_KEY is set (Backend B's credential)
    chatSession,        \* ai.ts: the managed-SDK chat session, or NoSession
    genAI,              \* ai.ts: TRUE iff the GoogleGenAI client is not null
    sharedAudioContext, \* ai.ts: TRUE iff the shared AudioContext was created
    deepseekMessages,   \* ai.ts: Backend B's stored history
    profiles,           \* App: the list of child profiles
    activeProfileId,    \* App: id of the active profile, NoId when null
    messages,           \* App: the transcript
    isLoading,          \* App: a reply is awaited
    inflight,           \* sendMessageToAI calls suspended at their await
    audio,              \* ChatMessage: isPlaying, isAudioLoading, the awaited call
    nextReq,            \* ghost: number of the next submission
    lastOp,             \* ghost: the last operation and its outcome
    calc                \* input and result of a pure function checked on its own

vars == << hasApiKey, hasDeepSeekKey, chatSession, genAI,
           sharedAudioContext, deepseekMessages, profiles, activeProfileId,
           messages, isLoading, inflight, audio, nextReq, lastOp, calc >>

envVars == << hasApiKey, hasDeepSeekKey >>
adapterVars == << chatSession, genAI, sharedAudioContext, deepseekMessages >>
appVars == << profiles, activeProfileId, messages, isLoading >>

----------------------------------------------------------------------------
(* Bounds of the model *)

MaxProfiles == 2    \* profiles created in a run
MaxSends == 2       \* submissions made in a run
MaxSextets == 6     \* base64 characters of an enumerated audio payload
MaxTextLen == 3     \* characters of an enumerated message text

(* Inputs *)

Names == { <<"Ann">> }
Ages == { 5 }
InputTexts == { << >>, <<" ">>, <<"q1">> }
ReplyTexts == { <<>>, <<"r1">> }

NoId == 0
NoSession == [ live |-> FALSE, systemInstruction |-> <<>> ]

----------------------------------------------------------------------------
(* Fixed strings of the code *)

TEMPLATE == << "persona", "{{CHILD_NAME}}", "(", "{{CHILD_AGE}}", "years)", "tone" >>
FALLBACK_EMPTY == << "sorry-cannot-think" >>
FALLBACK_CONNECTION == << "connection-error" >>
QUICK_NAME == << "kid" >>
QUICK_AGE == 6

----------------------------------------------------------------------------
(* Pure helpers *)

\* Position of the first occurrence of token pat in s, 0 when absent.
RECURSIVE IndexFrom(_, _, _)
IndexFrom(s, pat, i) ==
    IF i > Len(s) THEN 0
    ELSE IF s[i] = pat THEN i
    ELSE IndexFrom(s, pat, i + 1)

\* GetSubstitution for a string pattern matched at position i of s: in the
\* replacement "$$" stands for "$", "$&" for the matched text, "$`" for the
\* text before the match and "$'" for the text after it.
RECURSIVE GetSubstitution(_, _, _)
GetSubstitution(rep, s, i) ==
    IF rep = << >> THEN << >>
    ELSE (CASE Head(rep) = "$$" -> << "$" >>
            [] Head(rep) = "$&" -> << s[i] >>
            [] Head(rep) = "$`" -> SubSeq(s, 1, i - 1)
            [] Head(rep) = "$'" -> SubSeq(s, i + 1, Len(s))
            [] OTHER -> << Head(rep) >>)
         \o GetSubstitution(Tail(rep), s, i)

\* String.prototype.replace with a string pattern: only the first occurrence.
ReplaceFirst(s, pat, rep) ==
    LET i == IndexFrom(s, pat, 1)
    IN  IF i = 0 THEN s
        ELSE SubSeq(s, 1, i - 1) \o GetSubstitution(rep, s, i) \o SubSeq(s, i + 1, Len(s))

\* String.prototype.trim on the texts of the model.
Trim(t) == IF t \in { <<>>, <<" ">> } THEN <<>> ELSE t

\* profiles.find(p => p.id === activeProfileId) || null
HasProfile(ps, id) == \E i \in 1..Len(ps) : ps[i].id = id
FindProfile(ps, id) == ps[CHOOSE i \in 1..Len(ps) : ps[i].id = id]

\* Faulty variant of isDeepSeek: the other credential is read.
isDeepSeek_ReadsApiKey == hasApiKey

isDeepSeek == hasDeepSeekKey

useBrowserTTS == hasDeepSeekKey /\ ~hasApiKey

SystemInstruction(profile) ==
    ReplaceFirst(ReplaceFirst(TEMPLATE, "{{CHILD_AGE}}", << ToString(profile.age) >>),
                 "{{CHILD_NAME}}", profile.name)

Entry(role, content, prof, req) ==
    [ role |-> role, content |-> content, prof |-> prof, req |-> req ]

Msg(role, text, prof, req) ==
    [ role |-> role, text |-> text, prof |-> prof, req |-> req ]

\* The ghost record of a step: the adapter operation called, the backend branch
\* it took ("rest", "sdk", "native"), how it ended ("returned", "raised",
\* "pending"), why, the text returned, the submission, and, for
\* initializeChat, the stored history it discarded.
Op(op, via, outcome, cause, value, req, dropped) ==
    [ op |-> op, via |-> via, outcome |-> outcome, cause |-> cause,
      value |-> value, req |-> req, dropped |-> dropped ]

\* A step that calls no operation of the adapter.
Idle == Op("none", "none", "done", "none", << >>, 0, << >>)

\* calc while the application runs: no pure function is under check.
NoCalc == [ fn |-> "none", input |-> << >>, output |-> << >> ]

----------------------------------------------------------------------------
Init ==
    /\ hasApiKey \in BOOLEAN
    /\ hasDeepSeekKey \in BOOLEAN
    /\ chatSession = NoSession
    /\ genAI = FALSE
    /\ sharedAudioContext = FALSE
    /\ deepseekMessages = << >>
    /\ profiles = << >>
    /\ activeProfileId = NoId
    /\ messages = << >>
    /\ isLoading = FALSE
    /\ inflight = {}
    /\ audio = [ isPlaying |-> FALSE, isAudioLoading |-> FALSE, call |-> "none" ]
    /\ nextReq = 1
    /\ lastOp = Idle
    /\ calc = NoCalc

----------------------------------------------------------------------------
(* The provider adapter, src/services/ai.ts *)

\* The responses of Backend B's HTTP endpoint to one POST: the fetch rejects,
\* the status is not 2xx, the body is no JSON, or a JSON body whose first
\* choice has the given content (<< >>: the content is absent or empty).
Responses ==
    { [ kind |-> k, content |-> << >> ] : k \in { "neterr", "status", "badjson" } }
        \cup { [ kind |-> "json", content |-> c ] : c \in ReplyTexts }

\* The results of the SDK's chatSession.sendMessage: it rejects, or resolves
\* with result.text (<< >>: empty or undefined).
SdkResults ==
    { [ kind |-> "reject", content |-> << >> ] }
        \cup { [ kind |-> "text", content |-> c ] : c \in ReplyTexts }

\* Faulty variant of FreshHistory: the system message is pushed onto the old history.
FreshHistory_Appends(profile) ==
    deepseekMessages \o << Entry("system", SystemInstruction(profile), profile.id, 0) >>

\* initializeChat, Backend B branch: the history becomes the system message alone.
FreshHistory(profile) ==
    << Entry("system", SystemInstruction(profile), profile.id, 0) >>

\* Faulty variant of CreatedSession: the session is created without the credential check.
CreatedSession_NoKeyCheck(profile) ==
    [ live |-> TRUE, systemInstruction |-> SystemInstruction(profile) ]

\* initializeChat, Backend A branch: a session is created only with the credential.
CreatedSession(profile) ==
    IF ~hasApiKey THEN chatSession
    ELSE [ live |-> TRUE, systemInstruction |-> SystemInstruction(profile) ]

initializeChat(profile) ==
    IF isDeepSeek
    THEN /\ deepseekMessages' = FreshHistory(profile)
         /\ chatSession' = NoSession
         /\ genAI' = FALSE
    ELSE /\ chatSession' = CreatedSession(profile)
         /\ genAI' = (IF ~hasApiKey THEN genAI ELSE TRUE)
         /\ UNCHANGED deepseekMessages

\* initializeChat never raises; it logs the missing credential.
InitOutcome ==
    Op("initializeChat", IF isDeepSeek THEN "rest" ELSE "sdk", "returned",
       IF (isDeepSeek /\ ~hasDeepSeekKey) \/ (~isDeepSeek /\ ~hasApiKey)
       THEN "missing-credential" ELSE "ok",
       << >>, 0, IF isDeepSeek THEN deepseekMessages ELSE << >>)

\* sendMessageToAI: the backend branch, and what the call does up to its await.
\*   "raise-key": throws, DEEPSEEK_API_KEY missing;  "rest": POST to /deepseek/chat;
\*   "raise-session": throws, no chat session;  "sdk": chatSession.sendMessage.
SendVia == IF isDeepSeek THEN "rest" ELSE "sdk"

\* Faulty variant of SendPath: the message is sent without checking for a session.
SendPath_NoSessionCheck ==
    IF isDeepSeek THEN "rest" ELSE "sdk"

SendPath ==
    IF isDeepSeek
    THEN IF ~hasDeepSeekKey THEN "raise-key" ELSE "rest"
    ELSE IF ~chatSession.live THEN "raise-session" ELSE "sdk"

\* The suspended call: its local `messages` (REST path) and the session object
\* the message was sent to (SDK path).
SendCall(text, prof, req) ==
    [ path |-> SendPath,
      text |-> text,
      messages |-> IF SendPath = "rest"
                   THEN deepseekMessages \o << Entry("user", text, prof, req) >>
                   ELSE << >>,
      session |-> IF SendPath = "sdk" THEN chatSession ELSE NoSession,
      prof |-> prof,
      req |-> req ]

\* What a settled call returns.
RestFailed(resp) == resp.kind # "json"
RestReply(resp) ==
    IF RestFailed(resp) THEN FALLBACK_CONNECTION
    ELSE IF resp.content = << >> THEN FALLBACK_EMPTY ELSE resp.content

SdkReply(res) ==
    IF res.kind = "reject" THEN FALLBACK_CONNECTION
    ELSE IF res.content = << >> THEN FALLBACK_EMPTY ELSE res.content

\* The stored history after a REST call settled.
RestHistory(call, resp) ==
    IF RestFailed(resp) THEN deepseekMessages
    ELSE call.messages \o << Entry("assistant", RestReply(resp), call.prof, call.req) >>

SettleCause(call, r) ==
    IF r.kind \in { "json", "text" }
    THEN IF r.content = << >> THEN "empty" ELSE "reply"
    ELSE r.kind

----------------------------------------------------------------------------
(* The conversation state, src/App.tsx *)

activeProfile == IF HasProfile(profiles, activeProfileId)
                 THEN FindProfile(profiles, activeProfileId)
                 ELSE [ id |-> NoId, name |-> << >>, age |-> 0 ]

Greeting(profile) ==
    Msg("model", << "hello", profile.name[1], ToString(profile.age) >>, profile.id, 0)

ResetGreeting(profile) ==
    Msg("model", << "reset", profile.name[1] >>, profile.id, 0)

\* useEffect on activeProfileId, run with the profile that has just become active.
ProfileEffect(profile) ==
    /\ initializeChat(profile)
    /\ messages' = << Greeting(profile) >>
    /\ lastOp' = InitOutcome

NewProfile(name, age) == [ id |-> Len(profiles) + 1, name |-> name, age |-> age ]

handleCreateProfile(name, age) ==
    /\ Len(profiles) < MaxProfiles
    /\ profiles' = Append(profiles, NewProfile(name, age))
    /\ activeProfileId' = NewProfile(name, age).id
    /\ ProfileEffect(NewProfile(name, age))
    /\ UNCHANGED << calc, envVars, sharedAudioContext, isLoading, inflight,
                    audio, nextReq >>

\* The quick-start button is rendered on the landing page only.
handleQuickStart ==
    /\ Len(profiles) = 0
    /\ profiles' = Append(profiles, NewProfile(QUICK_NAME, QUICK_AGE))
    /\ activeProfileId' = NewProfile(QUICK_NAME, QUICK_AGE).id
    /\ ProfileEffect(NewProfile(QUICK_NAME, QUICK_AGE))
    /\ UNCHANGED << calc, envVars, sharedAudioContext, isLoading, inflight,
                    audio, nextReq >>

\* Faulty variant of handleSwitchProfile: the effect also runs when the
\* profile selected is the active one.
handleSwitchProfile_NoSameIdCheck(id) ==
    /\ HasProfile(profiles, id)
    /\ activeProfileId' = id
    /\ ProfileEffect(FindProfile(profiles, id))
    /\ UNCHANGED << sharedAudioContext, profiles, isLoading >>
    /\ UNCHANGED << calc, envVars, inflight, audio, nextReq >>

handleSwitchProfile(id) ==
    /\ HasProfile(profiles, id)
    /\ IF id = activeProfileId
       THEN /\ lastOp' = Idle
            /\ UNCHANGED << adapterVars, appVars >>
       ELSE /\ activeProfileId' = id
            /\ ProfileEffect(FindProfile(profiles, id))
            /\ UNCHANGED << sharedAudioContext, profiles, isLoading >>
    /\ UNCHANGED << calc, envVars, inflight, audio, nextReq >>

\* Faulty variant of SubmitIgnored: a submit is accepted while a reply is awaited.
SubmitIgnored_NoLoadingCheck(inputText) ==
    Trim(inputText) = << >> \/ ~HasProfile(profiles, activeProfileId)

SubmitIgnored(inputText) ==
    Trim(inputText) = << >> \/ isLoading \/ ~HasProfile(profiles, activeProfileId)

\* handleSendMessage up to its await; inputText is the content of the text
\* area when the form is submitted (the handler clears it).  A sendMessageToAI
\* that throws is caught and logged, and the finally clause clears isLoading
\* in the same step.
handleSendMessage(inputText) ==
    /\ Len(profiles) > 0
    /\ nextReq <= MaxSends
    /\ IF SubmitIgnored(inputText)
       THEN /\ lastOp' = Idle
            /\ UNCHANGED << adapterVars, appVars, inflight, nextReq >>
       ELSE LET call == SendCall(inputText, activeProfileId, nextReq)
                sent == call.path \in { "rest", "sdk" }
            IN  /\ sharedAudioContext' = TRUE
                /\ messages' = Append(messages, Msg("user", inputText, activeProfileId, nextReq))
                /\ isLoading' = sent
                /\ inflight' = IF sent THEN inflight \cup { call } ELSE inflight
                /\ nextReq' = nextReq + 1
                /\ lastOp' = Op("sendMessageToAI", SendVia,
                                IF sent THEN "pending" ELSE "raised",
                                call.path, << >>, nextReq, << >>)
                /\ UNCHANGED << chatSession, genAI, deepseekMessages, profiles,
                                activeProfileId >>
    /\ UNCHANGED << calc, envVars, audio >>

\* Faulty variant of LoadingAfterSettle: the indicator is cleared only for a
\* reply to the profile that is still active.
LoadingAfterSettle_OnlyActiveProfile(call) ==
    isLoading /\ call.prof # activeProfileId

\* finally { setIsLoading(false) } of handleSendMessage.
LoadingAfterSettle(call) == FALSE

\* The awaited sendMessageToAI settles: the rest of sendMessageToAI, then the
\* rest of handleSendMessage.
ReplyArrives(call, r) ==
    /\ call \in inflight
    /\ r \in (IF call.path = "rest" THEN Responses ELSE SdkResults)
    /\ LET reply == IF call.path = "rest" THEN RestReply(r) ELSE SdkReply(r)
       IN  /\ deepseekMessages' = IF call.path = "rest"
                                  THEN RestHistory(call, r)
                                  ELSE deepseekMessages
           /\ messages' = Append(messages, Msg("model", reply, call.prof, call.req))
           /\ lastOp' = Op("sendMessageToAI", call.path, "returned",
                           SettleCause(call, r), reply, call.req, << >>)
    /\ isLoading' = LoadingAfterSettle(call)
    /\ inflight' = inflight \ { call }
    /\ UNCHANGED << calc, envVars, chatSession, genAI, sharedAudioContext, profiles,
                    activeProfileId, audio, nextReq >>

\* Faulty variant of HistoryAfterReset: the reset also starts the stored
\* history over.
HistoryAfterReset_StartsOver(confirmed) ==
    IF confirmed /\ Len(deepseekMessages) > 0
    THEN << deepseekMessages[1] >>
    ELSE deepseekMessages

\* The reset handler calls no operation of the adapter.
HistoryAfterReset(confirmed) == deepseekMessages

\* The reset button of the header; confirmed is the answer to window.confirm.
resetConversation(confirmed) ==
    /\ Len(profiles) > 0
    /\ IF confirmed
       THEN messages' = IF HasProfile(profiles, activeProfileId)
                        THEN << ResetGreeting(activeProfile) >>
                        ELSE << >>
       ELSE UNCHANGED messages
    /\ lastOp' = Idle
    /\ deepseekMessages' = HistoryAfterReset(confirmed)
    /\ UNCHANGED << calc, envVars, chatSession, genAI, sharedAudioContext, profiles,
                    activeProfileId, isLoading, inflight, audio, nextReq >>

----------------------------------------------------------------------------
(* Speech: generateSpeech and playSpeech of src/services/ai.ts, called by   *)
(* handlePlayAudio of one ChatMessage component, src/unnamed/part_001.     *)
(* The component plays a model message of the transcript; the auto-play    *)
(* effect and the play button both run handlePlayAudio.                    *)

\* The results of the SDK's speech request: it rejects, the response holds no
\* audio data, or it holds a base64 PCM payload.
SpeechResults == { "reject", "no-audio", "audio" }

\* The ends of a native utterance: onend or onerror.
UtteranceEnds == { "onend", "onerror" }

\* Faulty variant of GeneratePath: the Backend B check is missing.
GeneratePath_NoDeepSeekCheck(clientBuilt) ==
    IF ~genAI /\ ~clientBuilt THEN "raise-client" ELSE "request"

\* generateSpeech up to its await.  With no credential the GoogleGenAI
\* constructor either throws (clientBuilt = FALSE) or builds a client whose
\* requests fail; both are outcomes of the SDK, which is no code of this program.
\*   "raise-deepseek": throws, TTS is not offered with Backend B;
\*   "raise-client": the constructor throws;  "request": generateContent is awaited.
GeneratePath(clientBuilt) ==
    IF isDeepSeek THEN "raise-deepseek"
    ELSE IF ~genAI /\ ~clientBuilt THEN "raise-client"
    ELSE "request"

\* playSpeech up to the utterance: throws when the facility is missing
\* (supported: 'speechSynthesis' in window, read at each call).
PlayPath(supported) == IF ~supported THEN "raise-unsupported" ELSE "speak"

HasModelMessage == \E i \in 1..Len(messages) : messages[i].role = "model"

handlePlayAudio(clientBuilt, supported) ==
    /\ HasModelMessage
    /\ ~audio.isAudioLoading
    /\ clientBuilt \in (IF hasApiKey THEN { TRUE } ELSE BOOLEAN)
    /\ IF audio.isPlaying
       THEN \* toggle off
            /\ audio' = [ audio EXCEPT !.isPlaying = FALSE ]
            /\ lastOp' = Idle
            /\ UNCHANGED genAI
       ELSE IF useBrowserTTS
       THEN /\ audio' = IF PlayPath(supported) = "speak"
                        THEN [ isPlaying |-> TRUE, isAudioLoading |-> TRUE,
                               call |-> "playSpeech" ]
                        ELSE [ isPlaying |-> TRUE, isAudioLoading |-> FALSE,
                               call |-> "none" ]
            /\ lastOp' = Op("playSpeech", "native",
                            IF PlayPath(supported) = "speak" THEN "pending" ELSE "raised",
                            PlayPath(supported), << >>, 0, << >>)
            /\ UNCHANGED genAI
       ELSE /\ audio' = IF GeneratePath(clientBuilt) = "request"
                        THEN [ audio EXCEPT !.isAudioLoading = TRUE,
                                            !.call = "generateSpeech" ]
                        ELSE audio
            /\ genAI' = IF GeneratePath(clientBuilt) = "request" THEN TRUE ELSE genAI
            /\ lastOp' = Op("generateSpeech", IF isDeepSeek THEN "rest" ELSE "sdk",
                            IF GeneratePath(clientBuilt) = "request"
                            THEN "pending" ELSE "raised",
                            GeneratePath(clientBuilt), << >>, 0, << >>)
    /\ UNCHANGED << calc, envVars, chatSession, sharedAudioContext, deepseekMessages,
                    appVars, inflight, nextReq >>

\* The awaited generateSpeech settles: a rejected request and a response
\* without audio data are rethrown to handlePlayAudio, which logs them.
SpeechArrives(r) ==
    /\ audio.call = "generateSpeech"
    /\ r \in SpeechResults
    /\ audio' = [ isPlaying |-> (IF r = "audio" THEN TRUE ELSE audio.isPlaying),
                  isAudioLoading |-> FALSE, call |-> "none" ]
    /\ sharedAudioContext' = (IF r = "audio" THEN TRUE ELSE sharedAudioContext)
    /\ lastOp' = Op("generateSpeech", "sdk",
                    IF r = "audio" THEN "returned" ELSE "raised", r, << >>, 0, << >>)
    /\ UNCHANGED << calc, envVars, chatSession, genAI, deepseekMessages, appVars,
                    inflight, nextReq >>

\* The native utterance ends: onend resolves playSpeech, onerror rejects it.
UtteranceSettles(e) ==
    /\ audio.call = "playSpeech"
    /\ e \in UtteranceEnds
    /\ audio' = [ isPlaying |-> (IF e = "onend" THEN FALSE ELSE audio.isPlaying),
                  isAudioLoading |-> FALSE, call |-> "none" ]
    /\ lastOp' = Op("playSpeech", "native",
                    IF e = "onend" THEN "returned" ELSE "raised", e, << >>, 0, << >>)
    /\ UNCHANGED << calc, envVars, adapterVars, appVars, inflight, nextReq >>

\* source.onended of a buffer that generateSpeech returned.
AudioEnded ==
    /\ ~useBrowserTTS
    /\ audio.isPlaying /\ audio.call = "none"
    /\ audio' = [ audio EXCEPT !.isPlaying = FALSE ]
    /\ lastOp' = Idle
    /\ UNCHANGED << calc, envVars, adapterVars, appVars, inflight, nextReq >>

----------------------------------------------------------------------------
Next ==
    \/ handleQuickStart
    \/ \E name \in Names, age \in Ages : handleCreateProfile(name, age)
    \/ \E id \in 1..MaxProfiles : handleSwitchProfile(id)
    \/ \E inputText \in InputTexts : handleSendMessage(inputText)
    \/ \E call \in inflight, r \in Responses \cup SdkResults : ReplyArrives(call, r)
    \/ \E confirmed \in BOOLEAN : resetConversation(confirmed)
    \/ \E clientBuilt \in BOOLEAN, supported \in BOOLEAN : handlePlayAudio(clientBuilt, supported)
    \/ \E r \in SpeechResults : SpeechArrives(r)
    \/ \E e \in UtteranceEnds : UtteranceSettles(e)
    \/ AudioEnded

Spec == Init /\ [][Next]_vars

TypeOK ==
    /\ hasApiKey \in BOOLEAN /\ hasDeepSeekKey \in BOOLEAN
    /\ isLoading \in BOOLEAN
    /\ activeProfileId \in 0..Len(profiles)
    /\ nextReq \in 1..(MaxSends + 1)
    /\ Len(profiles) <= MaxProfiles

----------------------------------------------------------------------------
(* Properties *)

Last(s) == s[Len(s)]

\* C1: in every reachable state Backend B's stored history holds only the
\* system message and turns of the active profile, also when the active
\* profile changes while a sendMessageToAI call awaits its reply.
C1_HistoryOfActiveProfile ==
    \A i \in 1..Len(deepseekMessages) : deepseekMessages[i].prof = activeProfileId

\* C2: with Backend B, every step that changes the active profile leaves the
\* stored history with exactly one entry, the system message built for the
\* newly active profile, whatever the history held before.
C2_SwitchLeavesOnlySystemMessage ==
    [][ (isDeepSeek /\ activeProfileId' # activeProfileId)
          => deepseekMessages' =
               << [ role |-> "system",
                    content |-> SystemInstruction(activeProfile'),
                    prof |-> activeProfileId',
                    req |-> 0 ] >> ]_vars

\* C2 witness: initializeChat for the second profile has just discarded a
\* history that held the first profile's system message, a user turn and an
\* assistant turn, and no call is outstanding.
C2_Witness ==
    /\ isDeepSeek
    /\ lastOp.op = "initializeChat"
    /\ activeProfileId = 2
    /\ inflight = {}
    /\ Len(lastOp.dropped) >= 3
    /\ lastOp.dropped[1].prof = 1
    /\ Len(deepseekMessages) = 1

\* C3: with Backend B, a sendMessageToAI call whose HTTP response has a
\* non-2xx status returns the fixed apology, and the stored history then ends
\* with that apology as an assistant turn.
C3_Non2xxAppendsApology ==
    (lastOp.op = "sendMessageToAI" /\ lastOp.via = "rest" /\ lastOp.cause = "status")
        => /\ lastOp.value = FALLBACK_CONNECTION
           /\ Len(deepseekMessages) > 0
           /\ Last(deepseekMessages).role = "assistant"
           /\ Last(deepseekMessages).content = FALLBACK_CONNECTION

\* C4: Backend B (the REST path) is the backend that initializeChat,
\* sendMessageToAI and generateSpeech use if and only if Backend B's credential
\* is present and Backend A's is absent.
C4_BackendBIffOnlyItsCredential ==
    lastOp.op \in { "initializeChat", "sendMessageToAI", "generateSpeech" }
        => ((lastOp.via = "rest") <=> (hasDeepSeekKey /\ ~hasApiKey))

\* C5: when Backend B's credential is present and Backend A's is absent,
\* every sendMessageToAI call goes through the REST path, no call ever reaches
\* the managed-SDK chat session, no SDK session exists, and the credentials
\* that select the backend never change.
C5_OnlyBRoutesEverySendToRest ==
    /\ [] ( (hasDeepSeekKey /\ ~hasApiKey)
              => /\ \A call \in inflight : call.path = "rest"
                 /\ ~chatSession.live
                 /\ lastOp.op = "sendMessageToAI"
                      => (lastOp.via = "rest" /\ lastOp.outcome # "raised") )
    /\ [][ UNCHANGED << hasApiKey, hasDeepSeekKey >> ]_vars

\* C5 witness: with only Backend B's credential, a call made after the second
\* initializeChat has returned through the REST path.
C5_Witness ==
    /\ hasDeepSeekKey /\ ~hasApiKey
    /\ Len(profiles) = 2
    /\ lastOp.op = "sendMessageToAI" /\ lastOp.outcome = "returned"
    /\ lastOp.via = "rest"
    /\ lastOp.req = 2

\* C6: at most one sendMessageToAI call is outstanding, isLoading is true
\* exactly while one is, the outstanding call answers the latest submission,
\* and the replies in the transcript are in the order of their submissions,
\* each after the user message that requested it.
C6_OneOutstandingAndRepliesInOrder ==
    /\ Cardinality(inflight) <= 1
    /\ isLoading <=> (inflight # {})
    /\ \A call \in inflight : call.req = nextReq - 1
    /\ (lastOp.op = "sendMessageToAI" /\ lastOp.outcome = "returned")
          => lastOp.req = nextReq - 1
    /\ \A i, j \in 1..Len(messages) :
          /\ (i < j /\ messages[i].req > 0 /\ messages[j].req > 0)
                => messages[i].req <= messages[j].req
          /\ (messages[i].role = "user" /\ messages[j].role = "model"
              /\ messages[i].req = messages[j].req)
                => i < j

\* C6 witness: the replies to two submissions stand in the transcript.
C6_Witness ==
    /\ \E i, j \in 1..Len(messages) :
          /\ messages[i].role = "model" /\ messages[i].req = 1
          /\ messages[j].role = "model" /\ messages[j].req = 2
    /\ lastOp.op = "sendMessageToAI" /\ lastOp.outcome = "returned"

\* C7: the transcript only ever holds messages of the active profile: a reply
\* that resolves after the active profile changed is not appended to the new
\* profile's transcript.
C7_TranscriptOfActiveProfile ==
    \A i \in 1..Len(messages) : messages[i].prof = activeProfileId

\* C8: every submission whose reply fails (transport error, non-2xx status,
\* empty reply, or no session because the credential is absent) ends with the
\* transcript holding the user's message followed by an assistant message
\* that carries a fixed error string.
C8_FailedTurnShowsApology ==
    (lastOp.op = "sendMessageToAI"
     /\ (lastOp.outcome = "raised"
         \/ (lastOp.outcome = "returned" /\ lastOp.cause # "reply")))
        => /\ Len(messages) >= 2
           /\ Last(messages).role = "model"
           /\ Last(messages).text \in { FALLBACK_CONNECTION, FALLBACK_EMPTY }
           /\ messages[Len(messages) - 1].role = "user"
           /\ messages[Len(messages) - 1].req = lastOp.req

C10_MissingCredentialLeavesNoSession ==
    ((isDeepSeek /\ ~hasDeepSeekKey) \/ (~isDeepSeek /\ ~hasApiKey))
        => /\ ~chatSession.live
           /\ inflight = {}
           /\ lastOp.op = "initializeChat"
                 => (lastOp.outcome = "returned" /\ lastOp.cause = "missing-credential")
           /\ lastOp.op = "sendMessageToAI" => lastOp.outcome = "raised"

\* C10 witness: with no credential, the second submission after
\* initializeChat has raised as the first did.
C10_Witness ==
    /\ ~hasDeepSeekKey /\ ~hasApiKey
    /\ Len(profiles) >= 1
    /\ lastOp.op = "sendMessageToAI" /\ lastOp.outcome = "raised"
    /\ lastOp.req = 2

\* C11: whenever chat is routed to Backend B, generateSpeech raises at once:
\* no speech request to the SDK is ever pending, and the call changes neither
\* the session, the client, the history nor the shared audio context.
C11_SpeechFailsOnBackendB ==
    /\ [] (isDeepSeek => audio.call # "generateSpeech")
    /\ [][ (isDeepSeek /\ lastOp'.op = "generateSpeech")
             => /\ lastOp'.outcome = "raised"
                /\ lastOp'.cause = "raise-deepseek"
                /\ UNCHANGED << chatSession, genAI, deepseekMessages,
                                sharedAudioContext >> ]_vars

\* C11 witness: generateSpeech has raised on Backend B while the stored
\* history holds a conversation.
C11_Witness ==
    /\ isDeepSeek
    /\ lastOp.op = "generateSpeech" /\ lastOp.outcome = "raised"
    /\ Len(deepseekMessages) >= 3

----------------------------------------------------------------------------
(* Audio decoding: decode and decodeAudioData of src/services/ai.ts, as     *)
(* generateSpeech applies them to the payload of a speech response.  A     *)
(* base64 text is the sequence of the 6-bit values of its characters       *)
(* (padding left out); a sample is the fraction num / den.                 *)

SAMPLE_RATE == 24000
NUM_CHANNELS == 1
INT16_SCALE == 32768

\* The 6-bit values the enumerated payloads are made of.
Sextets == { 0, 1, 32, 63 }

\* One second of silence: 48000 zero bytes are 64000 characters "A".
ZeroPayload == [ i \in 1..64000 |-> 0 ]

Payloads ==
    UNION { [ 1..n -> Sextets ] : n \in 0..MaxSextets } \cup { ZeroPayload }

Pow2(k) == IF k = 0 THEN 1 ELSE IF k = 2 THEN 4 ELSE 16

\* atob, then charCodeAt of every character: byte k holds bits 8(k-1)..8k-1 of
\* the 6-bit stream.  atob throws on a length of 4m+1 characters.
AtobValid(b64) == Len(b64) % 4 # 1

decode(b64) ==
    [ k \in 1..((Len(b64) * 3) \div 4) |->
        LET q == ((8 * (k - 1)) \div 6) + 1
            r == (8 * (k - 1)) % 6
        IN  ((b64[q] * 64 + b64[q + 1]) \div Pow2(4 - r)) % 256 ]

\* Faulty variant of Int16At: the 16 bits are read as an unsigned number.
Int16At_Unsigned(bytes, i) == bytes[2 * i - 1] + 256 * bytes[2 * i]

\* Element i (from 1) of new Int16Array(data.buffer): two's complement, low
\* byte first (typed arrays use the byte order of the platform, which is
\* little-endian wherever a browser runs).
Int16At(bytes, i) ==
    LET u == bytes[2 * i - 1] + 256 * bytes[2 * i]
    IN  IF u >= 32768 THEN u - 65536 ELSE u

\* new Int16Array(buffer) throws a RangeError on an odd byte length.
Int16Valid(bytes) == Len(bytes) % 2 = 0

decodeAudioData(bytes) ==
    [ i \in 1..((Len(bytes) \div 2) \div NUM_CHANNELS) |->
        [ num |-> Int16At(bytes, i), den |-> INT16_SCALE ] ]

\* generateSpeech from the payload to the returned buffer.
DecodedSpeech(b64) ==
    IF ~AtobValid(b64) THEN [ ok |-> FALSE, bytes |-> << >>, samples |-> << >> ]
    ELSE IF ~Int16Valid(decode(b64))
         THEN [ ok |-> FALSE, bytes |-> decode(b64), samples |-> << >> ]
    ELSE [ ok |-> TRUE, bytes |-> decode(b64),
           samples |-> decodeAudioData(decode(b64)) ]

\* The application has not started; only calc holds c.
PureInit(c) ==
    /\ hasApiKey = FALSE
    /\ hasDeepSeekKey = FALSE
    /\ chatSession = NoSession
    /\ genAI = FALSE
    /\ sharedAudioContext = FALSE
    /\ deepseekMessages = << >>
    /\ profiles = << >>
    /\ activeProfileId = NoId
    /\ messages = << >>
    /\ isLoading = FALSE
    /\ inflight = {}
    /\ audio = [ isPlaying |-> FALSE, isAudioLoading |-> FALSE, call |-> "none" ]
    /\ nextReq = 1
    /\ lastOp = Idle
    /\ calc = c

appState == << envVars, adapterVars, appVars, inflight, audio, nextReq, lastOp >>

DecodeInit ==
    \E b64 \in Payloads : PureInit([ fn |-> "payload", input |-> b64, output |-> << >> ])

DecodeStep ==
    /\ calc.fn = "payload"
    /\ calc' = [ fn |-> "decodeAudioData", input |-> calc.input,
                 output |-> DecodedSpeech(calc.input) ]
    /\ UNCHANGED appState

SpecDecode == DecodeInit /\ [][DecodeStep]_vars

\* C12: a payload of 2n bytes decodes to exactly n samples, sample i being the
\* little-endian signed 16-bit integer at bytes 2i, 2i+1 (counted from 0)
\* divided by 32768, so within [-1, 1]; one second of silence (48000 zero
\* bytes) decodes to exactly 24000 samples, all 0.
C12_DecodesPcm16 ==
    calc.fn = "decodeAudioData"
        => /\ calc.output.ok <=> (AtobValid(calc.input) /\ Len(calc.output.bytes) % 2 = 0)
           /\ calc.output.ok
                 => /\ 2 * Len(calc.output.samples) = Len(calc.output.bytes)
                    /\ \A i \in 1..Len(calc.output.samples) :
                          LET x == calc.output.samples[i]
                              lo == calc.output.bytes[2 * i - 1]
                              hi == calc.output.bytes[2 * i]
                          IN  /\ x.den = 32768
                              /\ x.num \in -32768..32767
                              /\ (x.num - (lo + 256 * hi)) % 65536 = 0
                              /\ -x.den <= x.num /\ x.num <= x.den
           /\ Len(calc.input) = 64000
                 => /\ calc.output.ok
                    /\ Len(calc.output.bytes) = 48000
                    /\ Len(calc.output.samples) = SAMPLE_RATE
                    /\ \A i \in 1..Len(calc.output.samples) :
                          calc.output.samples[i].num = 0

\* C12 witness: the second of silence has been decoded.
C12_Witness ==
    /\ calc.fn = "decodeAudioData"
    /\ Len(calc.input) = 64000
    /\ Len(calc.output.samples) = 24000

\* A negative sample has been decoded (high byte 0xFF).
C12_NegativeSampleSeen ==
    /\ calc.fn = "decodeAudioData"
    /\ calc.output.ok
    /\ \E i \in 1..Len(calc.output.samples) : calc.output.samples[i].num < 0

----------------------------------------------------------------------------
(* Text sanitization: cleanText of handlePlayAudio, src/unnamed/part_001.  *)
(* Here a text is the sequence of its characters.                          *)

Chars == { "*", "#", "-", " ", "\n", "(", "]", "a" }

ExampleText ==
    << "*", "*", "H", "i", "*", "*", " ", "t", "h", "e", "r", "e", " ",
       "(", "w", "h", "i", "s", "p", "e", "r", ")", " ", "#", "t", "i", "t", "l", "e" >>

Texts == UNION { [ 1..n -> Chars ] : n \in 0..MaxTextLen } \cup { ExampleText }

IsSpace(c) == c \in { " ", "\n", "\t" }
IsOpener(c) == c \in { "(", "[", "{" }
IsCloser(c) == c \in { ")", "]", "}" }

\* .replace(/\*\*/g, '')
RECURSIVE RemoveBoldFrom(_, _)
RemoveBoldFrom(s, i) ==
    IF i > Len(s) THEN << >>
    ELSE IF i < Len(s) /\ s[i] = "*" /\ s[i + 1] = "*" THEN RemoveBoldFrom(s, i + 2)
    ELSE << s[i] >> \o RemoveBoldFrom(s, i + 1)

RemoveBold(s) == RemoveBoldFrom(s, 1)

\* .replace(/\#/g, '')
RemoveHash(s) == SelectSeq(s, LAMBDA c : c # "#")

\* /^\s*[\-\*]\s/gm tried at position i: the position of the last character
\* matched, 0 when there is no match.  ^ matches at the start of the text and
\* after a line break; \s* takes all the white space there is.
RECURSIVE SkipSpace(_, _)
SkipSpace(s, i) == IF i <= Len(s) /\ IsSpace(s[i]) THEN SkipSpace(s, i + 1) ELSE i

BulletEnd(s, i) ==
    LET k == SkipSpace(s, i)
    IN  IF /\ (i = 1 \/ s[i - 1] = "\n")
           /\ k < Len(s)
           /\ s[k] \in { "-", "*" }
           /\ IsSpace(s[k + 1])
        THEN k + 1
        ELSE 0

\* .replace(/^\s*[\-\*]\s/gm, '')
RECURSIVE RemoveBulletsFrom(_, _)
RemoveBulletsFrom(s, i) ==
    IF i > Len(s) THEN << >>
    ELSE IF BulletEnd(s, i) > 0 THEN RemoveBulletsFrom(s, BulletEnd(s, i) + 1)
    ELSE << s[i] >> \o RemoveBulletsFrom(s, i + 1)

RemoveBullets(s) == RemoveBulletsFrom(s, 1)

\* The first closer after position i on the same line (. matches no line
\* break), 0 when there is none: the end of the lazy .*? followed by a closer.
RECURSIVE CloserFrom(_, _)
CloserFrom(s, j) ==
    IF j > Len(s) \/ s[j] = "\n" THEN 0
    ELSE IF IsCloser(s[j]) THEN j
    ELSE CloserFrom(s, j + 1)

\* .replace(/[\(\[\{].*?[\)\]\}]/g, '')
RECURSIVE RemoveBracketsFrom(_, _)
RemoveBracketsFrom(s, i) ==
    IF i > Len(s) THEN << >>
    ELSE IF IsOpener(s[i]) /\ CloserFrom(s, i + 1) > 0
         THEN RemoveBracketsFrom(s, CloserFrom(s, i + 1) + 1)
    ELSE << s[i] >> \o RemoveBracketsFrom(s, i + 1)

RemoveBrackets(s) == RemoveBracketsFrom(s, 1)

cleanText(text) == RemoveBrackets(RemoveBullets(RemoveHash(RemoveBold(text))))

CleanInit ==
    \E text \in Texts : PureInit([ fn |-> "text", input |-> text, output |-> << >> ])

CleanStep ==
    /\ calc.fn = "text"
    /\ calc' = [ fn |-> "cleanText", input |-> calc.input,
                 output |-> cleanText(calc.input) ]
    /\ UNCHANGED appState

SpecClean == CleanInit /\ [][CleanStep]_vars

\* C13 as stated: "**Hi** there (whisper) #title" is sanitized to exactly
\* "Hi there title".
C13_ExampleCollapsesSpaces ==
    (calc.fn = "cleanText" /\ calc.input = ExampleText)
        => calc.output = << "H", "i", " ", "t", "h", "e", "r", "e", " ",
                            "t", "i", "t", "l", "e" >>

\* What cleanText computes instead: "Hi there  title", with both of the spaces
\* that stood around the removed aside; and no sanitized text holds a "#" or
\* is longer than its input.
CleanTextKeepsBothSpaces ==
    calc.fn = "cleanText"
        => /\ calc.input = ExampleText
                 => calc.output = << "H", "i", " ", "t", "h", "e", "r", "e", " ", " ",
                                     "t", "i", "t", "l", "e" >>
           /\ \A i \in 1..Len(calc.output) : calc.output[i] # "#"
           /\ Len(calc.output) <= Len(calc.input)


----------------------------------------------------------------------------
(* The persona instruction of initializeChat over names that hold          *)
(* placeholder text or replacement patterns.                               *)

NameTokens == { "Ann", "Bob", "$&", "$$", "$`", "$'", "{{CHILD_NAME}}", "{{CHILD_AGE}}" }

PersonaNames == { << t >> : t \in NameTokens } \cup { << "Ann", "$&" >>, << "$$", "Bob" >> }

PersonaNext ==
    \/ handleQuickStart
    \/ \E name \in PersonaNames, age \in Ages : handleCreateProfile(name, age)
    \/ \E id \in 1..MaxProfiles : handleSwitchProfile(id)

SpecPersona == Init /\ [][PersonaNext]_vars

\* t occurs in s as a run of consecutive tokens.
Contains(s, t) ==
    \E i \in 0..(Len(s) - Len(t)) : SubSeq(s, i + 1, i + Len(t)) = t

HasInstruction ==
    IF isDeepSeek THEN Len(deepseekMessages) > 0 ELSE chatSession # NoSession

\* The instruction of the stored session or history.
Instruction ==
    IF isDeepSeek THEN deepseekMessages[1].content ELSE chatSession.systemInstruction

\* C14: after initializeChat for a profile the persona instruction holds the
\* profile's name and the decimal form of its age where the two placeholders
\* stood, whatever the name is; and after a switch to a profile with another
\* name it does not hold the name of the profile switched from.
C14_InstructionHoldsNameAndAge ==
    [][ (lastOp'.op = "initializeChat" /\ HasInstruction')
          => LET p == FindProfile(profiles', activeProfileId')
             IN  /\ Instruction' = << "persona" >> \o p.name
                                     \o << "(", ToString(p.age), "years)", "tone" >>
                 /\ (activeProfileId # NoId /\ activeProfile.name # p.name
                       /\ ~Contains(p.name, activeProfile.name))
                      => ~Contains(Instruction', activeProfile.name) ]_vars

----------------------------------------------------------------------------
(* The stored history of Backend B *)

\* A settled REST call that got a 2xx response with a readable body.
RestSucceeded(op) ==
    /\ op.op = "sendMessageToAI"
    /\ op.via = "rest"
    /\ op.outcome = "returned"
    /\ op.cause \in { "reply", "empty" }

\* One system message, then user and assistant turns in alternation, each
\* assistant turn answering the user turn before it, in request order.
WellFormedHistory(h) ==
    /\ Len(h) > 0 => h[1].role = "system"
    /\ \A i \in 2..Len(h) :
          /\ h[i].role = (IF i % 2 = 0 THEN "user" ELSE "assistant")
          /\ (i % 2 = 1) => h[i].req = h[i - 1].req
          /\ (i % 2 = 0 /\ i > 2) => h[i].req > h[i - 1].req

\* C15: on Backend B a send posts the stored history followed by the new user
\* turn, a successful send extends the stored history by exactly the user
\* turn and the assistant turn, and the stored history is always one system
\* message followed by alternating user and assistant turns in request order.
C15_SendExtendsHistoryByTwo ==
    /\ [][ (lastOp'.op = "sendMessageToAI" /\ lastOp'.via = "rest"
              /\ lastOp'.outcome = "pending")
             => \E call \in inflight' \ inflight :
                   /\ Len(call.messages) = Len(deepseekMessages) + 1
                   /\ SubSeq(call.messages, 1, Len(deepseekMessages)) = deepseekMessages
                   /\ Last(call.messages).role = "user"
                   /\ Last(call.messages).content = call.text ]_vars
    /\ [][ RestSucceeded(lastOp')
             => /\ Len(deepseekMessages') = Len(deepseekMessages) + 2
                /\ SubSeq(deepseekMessages', 1, Len(deepseekMessages)) = deepseekMessages
                /\ deepseekMessages'[Len(deepseekMessages') - 1].role = "user"
                /\ Last(deepseekMessages').role = "assistant"
                /\ Last(deepseekMessages').content = lastOp'.value ]_vars
    /\ [] WellFormedHistory(deepseekMessages)

\* The parts of C15 that the code keeps: what is posted, and the shape of the
\* stored history.
HistoryShapeKept ==
    /\ [][ (lastOp'.op = "sendMessageToAI" /\ lastOp'.via = "rest"
              /\ lastOp'.outcome = "pending")
             => \E call \in inflight' \ inflight :
                   call.messages = deepseekMessages
                                     \o << Entry("user", call.text, call.prof, call.req) >> ]_vars
    /\ [] WellFormedHistory(deepseekMessages)

----------------------------------------------------------------------------
(* Responses without reply content *)

\* A call settled by a transport error: network failure, non-2xx status,
\* unreadable body, or a rejected SDK call.
TransportFailed(op) ==
    /\ op.op = "sendMessageToAI"
    /\ op.outcome = "returned"
    /\ op.cause \in { "neterr", "status", "badjson", "reject" }

\* A call settled by a successful response that holds no reply content.
EmptyReply(op) ==
    /\ op.op = "sendMessageToAI"
    /\ op.outcome = "returned"
    /\ op.cause = "empty"

\* C16: a successful response without reply content is treated exactly like a
\* transport error: sendMessageToAI returns the same apology string and leaves
\* the stored history as a transport error leaves it, that is, unchanged.
C16_EmptyReplyLikeTransportError ==
    /\ [][ TransportFailed(lastOp')
             => /\ lastOp'.value = FALLBACK_CONNECTION
                /\ UNCHANGED deepseekMessages ]_vars
    /\ [][ EmptyReply(lastOp')
             => /\ lastOp'.value = FALLBACK_CONNECTION
                /\ UNCHANGED deepseekMessages ]_vars

----------------------------------------------------------------------------
(* Progress of a submission *)

\* The handlers that read or write the conversation: the speech handlers of
\* a message bubble touch neither isLoading nor the calls in flight.
NextChat ==
    \/ handleQuickStart
    \/ \E name \in Names, age \in Ages : handleCreateProfile(name, age)
    \/ \E id \in 1..MaxProfiles : handleSwitchProfile(id)
    \/ \E inputText \in InputTexts : handleSendMessage(inputText)
    \/ \E call \in inflight, r \in Responses \cup SdkResults : ReplyArrives(call, r)
    \/ \E confirmed \in BOOLEAN : resetConversation(confirmed)

\* The backend call of every submission in flight settles.
LiveSpec ==
    /\ Init
    /\ [][NextChat]_vars
    /\ WF_vars(\E call \in inflight, r \in Responses \cup SdkResults : ReplyArrives(call, r))

\* C17: whenever isLoading is true it is eventually false again, given that
\* the backend call settles, also when the profile is switched or the
\* conversation is reset while the call is in flight.
C17_LoadingEventuallyCleared ==
    isLoading ~> ~isLoading

\* C17 witness: a call is in flight, the indicator is on, and the active
\* profile is no longer the one the call was made for.
C17_Witness ==
    /\ isLoading
    /\ \E call \in inflight : call.prof # activeProfileId

----------------------------------------------------------------------------
(* Selecting a profile *)

\* What initializeChat(p) leaves behind on the selected backend.
SessionOf(p, session, history) ==
    IF isDeepSeek
    THEN history = << Entry("system", SystemInstruction(p), p.id, 0) >>
    ELSE hasApiKey => session = [ live |-> TRUE, systemInstruction |-> SystemInstruction(p) ]

\* C18: selecting the active profile calls no initializeChat and leaves the
\* transcript, the adapter's session and history and isLoading unchanged; and
\* every change of the active profile calls initializeChat for the new profile
\* and makes the transcript exactly its greeting.
C18_SameProfileIsNoOp ==
    /\ [][ \A id \in 1..MaxProfiles :
             (id = activeProfileId /\ handleSwitchProfile(id))
                => /\ lastOp'.op # "initializeChat"
                   /\ UNCHANGED << messages, adapterVars, isLoading >> ]_vars
    /\ [][ activeProfileId' # activeProfileId
             => LET p == FindProfile(profiles', activeProfileId')
                IN  /\ lastOp'.op = "initializeChat"
                    /\ SessionOf(p, chatSession', deepseekMessages')
                    /\ messages' = << Greeting(p) >> ]_vars

\* C18 witness: with two profiles the first one has been selected again, after
\* turns were made with the second, and the session was initialized for it.
C18_Witness ==
    /\ Len(profiles) = 2
    /\ activeProfileId = 1
    /\ lastOp.op = "initializeChat"
    /\ nextReq > 1
    /\ messages = << Greeting(activeProfile) >>

----------------------------------------------------------------------------
(* Resetting the conversation *)

\* The transcript is the greeting that only the reset button writes.
TranscriptIsReset ==
    /\ HasProfile(profiles, activeProfileId)
    /\ messages = << ResetGreeting(activeProfile) >>

\* C19: a step that replaces the transcript by the reset greeting calls no
\* initializeChat and leaves the adapter's session and history unchanged; so
\* the history of Backend B keeps the turns made before the reset.
C19_ResetLeavesAdapterAlone ==
    [][ (TranscriptIsReset' /\ messages' # messages)
          => /\ lastOp'.op # "initializeChat"
             /\ UNCHANGED << chatSession, genAI, deepseekMessages >> ]_vars

\* C19 witness: after a reset the transcript is the single greeting while the
\* stored history of Backend B still holds a user turn and its answer.
C19_Witness ==
    /\ isDeepSeek
    /\ TranscriptIsReset
    /\ Len(deepseekMessages) >= 3

----------------------------------------------------------------------------
(* The speech path and the chat backend *)

\* C20: whenever chat is routed to Backend B, playing a message goes through
\* playSpeech and never through generateSpeech, the operation that always
\* fails on that backend; in particular with both credentials present.
C20_SpeechPathMatchesBackend ==
    (isDeepSeek /\ lastOp.op \in { "generateSpeech", "playSpeech" })
        => /\ lastOp.op = "playSpeech"
           /\ lastOp.cause # "raise-deepseek"

====
